---- MODULE Spec2Model ----
(***************************************************************************)
(* Model of the Minesweeper knowledge engine of                            *)
(* projects/2023/x/minesweeper/minesweeper.py: the classes Minesweeper     *)
(* (the board), Sentence and MinesweeperAI.                                *)
(*                                                                         *)
(* A cell is a pair <<row, column>>.  A Sentence object is a record        *)
(* [cells, count].  Python's None is the string "None".                    *)
(***************************************************************************)
EXTENDS Integers, FiniteSets, Sequences, TLC

\* Bounds of the model.
MaxArea == 6        \* boards have height * width <= MaxArea
MaxSentCells == 3   \* cells a stand-alone Sentence is built over
MaxAnyArea == 2     \* the boards of an unconstrained caller
MaxCalls == 2       \* add_knowledge calls of an unconstrained caller
MaxCount == 2       \* largest count an unconstrained caller passes
MaxMarks == 2       \* mark_mine and mark_safe calls made on the AI from outside

None == "None"

VARIABLES
    height,      \* MinesweeperAI.height, Minesweeper.height
    width,       \* MinesweeperAI.width, Minesweeper.width
    board,       \* Minesweeper.mines: the cells that really hold a mine
    moves_made,  \* MinesweeperAI.moves_made
    safes,       \* MinesweeperAI.safes
    mines,       \* MinesweeperAI.mines
    knowledge,   \* MinesweeperAI.knowledge: a list of Sentence objects
    sentence,    \* a stand-alone Sentence object
    prev,        \* the stand-alone Sentence as it was before the last call
    op,          \* the last operation called
    arg,         \* its cell argument
    argCount,    \* its count argument
    ret,         \* its return value
    marks        \* how many times mark_mine or mark_safe was called on the AI

vars == <<height, width, board, moves_made, safes, mines, knowledge,
          sentence, prev, op, arg, argCount, ret, marks>>

aiVars == <<moves_made, safes, mines, knowledge>>

Min(a, b) == IF a <= b THEN a ELSE b
Max(a, b) == IF a >= b THEN a ELSE b

(***************************************************************************)
(* Minesweeper (the board)                                                 *)
(***************************************************************************)

\* All cells of the board: _get_all_cells.
get_all_cells == (0 .. height - 1) \X (0 .. width - 1)

\* Minesweeper.nearby_mines: the mines within one row and column of cell,
\* the cell itself excluded, out-of-bounds positions ignored.
nearby_mines(cell) ==
    Cardinality({ c \in (cell[1] - 1 .. cell[1] + 1) \X (cell[2] - 1 .. cell[2] + 1) :
                    /\ c # cell
                    /\ 0 <= c[1] /\ c[1] < height
                    /\ 0 <= c[2] /\ c[2] < width
                    /\ c \in board })

(***************************************************************************)
(* Sentence                                                                *)
(***************************************************************************)

NewSentence(cells, count) == [cells |-> cells, count |-> count]

\* What known_mines and known_safes return: a generator object over some
\* cells, "(cell for cell in self.cells)", or None when the method falls
\* off its end.
GeneratorOver(cells) == [none |-> FALSE, cells |-> cells]
NoneReturned == [none |-> TRUE, cells |-> {}]

\* Sentence.known_mines
known_mines(s) ==
    IF s.count = Cardinality(s.cells) THEN GeneratorOver(s.cells) ELSE NoneReturned

\* Sentence.known_safes
known_safes(s) ==
    IF s.count = 0 THEN GeneratorOver(s.cells) ELSE NoneReturned

\* Sentence.mark_mine without the test of count: the count can go below 0.
Sentence_mark_mine_unguarded(s, cell) ==
    IF cell \in s.cells
    THEN [cells |-> s.cells \ {cell}, count |-> s.count - 1]
    ELSE s

\* Sentence.mark_mine without "self.count -= 1".
Sentence_mark_mine_keeps_count(s, cell) ==
    IF cell \in s.cells /\ s.count > 0
    THEN [cells |-> s.cells \ {cell}, count |-> s.count]
    ELSE s

\* Sentence.mark_mine
Sentence_mark_mine(s, cell) ==
    IF cell \in s.cells /\ s.count > 0
    THEN [cells |-> s.cells \ {cell}, count |-> s.count - 1]
    ELSE s

\* Sentence.mark_safe
Sentence_mark_safe(s, cell) ==
    IF cell \in s.cells /\ s.count > 0
    THEN [cells |-> s.cells \ {cell}, count |-> s.count]
    ELSE s

(***************************************************************************)
(* MinesweeperAI                                                           *)
(***************************************************************************)

\* MinesweeperAI._get_surrounding_cells
get_surrounding_cells(cell) ==
    LET border_height_max == Min(height, cell[1] + 1)
        border_height_min == Max(0, cell[1] - 1)
        border_width_max  == Min(width, cell[2] + 1)
        border_width_min  == Max(0, cell[2] - 1)
    IN  { c \in (border_height_min .. border_height_max)
                    \X (border_width_min .. border_width_max) : c # cell }

\* "for surr_cell in surr_cells: new_sentence.mark_safe(surr_cell)"
RECURSIVE MarkSafeEach(_, _)
MarkSafeEach(s, cells) ==
    IF cells = {} THEN s
    ELSE LET c == CHOOSE x \in cells : TRUE
         IN  MarkSafeEach(Sentence_mark_safe(s, c), cells \ {c})

\* "for surr_cell in surr_cells: new_sentence.mark_mine(surr_cell)"
RECURSIVE MarkMineEach(_, _)
MarkMineEach(s, cells) ==
    IF cells = {} THEN s
    ELSE LET c == CHOOSE x \in cells : TRUE
         IN  MarkMineEach(Sentence_mark_mine(s, c), cells \ {c})

\* "for sentence in self.knowledge: sentence.mark_mine(cell)"
MarkMineInAll(k, cell) ==
    [i \in 1 .. Len(k) |-> Sentence_mark_mine(k[i], cell)]

\* "for sentence in self.knowledge: sentence.mark_safe(cell)"
MarkSafeInAll(k, cell) ==
    [i \in 1 .. Len(k) |-> Sentence_mark_safe(k[i], cell)]

\* MinesweeperAI.mark_mine
AI_mark_mine(cell) ==
    /\ mines' = mines \cup {cell}
    /\ knowledge' = MarkMineInAll(knowledge, cell)
    /\ op' = "mark_mine"
    /\ arg' = cell
    /\ argCount' = 0
    /\ ret' = None
    /\ marks' = marks + 1
    /\ UNCHANGED <<height, width, board, moves_made, safes, sentence, prev>>

\* MinesweeperAI.mark_safe
AI_mark_safe(cell) ==
    /\ safes' = safes \cup {cell}
    /\ knowledge' = MarkSafeInAll(knowledge, cell)
    /\ op' = "mark_safe"
    /\ arg' = cell
    /\ argCount' = 0
    /\ ret' = None
    /\ marks' = marks + 1
    /\ UNCHANGED <<height, width, board, moves_made, mines, sentence, prev>>

(***************************************************************************)
(* _update_sentence works on a deep copy of the sentence; it changes       *)
(* self.mines and self.safes only.  Both of its loops run over a Python    *)
(* set, whose order is not fixed by the program: the loops are modelled    *)
(* over every order.  A loop state f holds the copy (cells, count), the    *)
(* global set the loop writes, and rem, the elements still to visit.       *)
(***************************************************************************)

\* The safes iteration marking the cells of the copy as they were before
\* the safe was removed.
SafesStepMarksAll(f, safe) ==
    LET cells1 == f.cells \ {safe}
    IN  IF Cardinality(cells1) = f.count /\ Cardinality(cells1) > 0
        THEN [cells |-> {}, count |-> f.count - Cardinality(cells1),
              mines |-> f.mines \cup f.cells, rem |-> f.rem \ {safe}]
        ELSE [cells |-> cells1, count |-> f.count,
              mines |-> f.mines, rem |-> f.rem \ {safe}]

\* The safes iteration without the test of line 252: it only removes.
SafesStepOnlyRemoves(f, safe) ==
    [cells |-> f.cells \ {safe}, count |-> f.count,
     mines |-> f.mines, rem |-> f.rem \ {safe}]

\* One iteration of "for safe in self.safes" (lines 250-259).
SafesStep(f, safe) ==
    LET cells1 == f.cells \ {safe}
    IN  IF Cardinality(cells1) = f.count /\ Cardinality(cells1) > 0
        THEN [cells |-> {}, count |-> f.count - Cardinality(cells1),
              mines |-> f.mines \cup cells1, rem |-> f.rem \ {safe}]
        ELSE [cells |-> cells1, count |-> f.count,
              mines |-> f.mines, rem |-> f.rem \ {safe}]

\* Every order of the remaining iterations of the safes loop.
RECURSIVE SafesOrders(_)
SafesOrders(frontier) ==
    IF \A f \in frontier : f.rem = {} THEN frontier
    ELSE SafesOrders({ f \in frontier : f.rem = {} }
                     \cup { SafesStep(f, s) : <<f, s>> \in
                              { p \in frontier \X UNION { f.rem : f \in frontier } :
                                  p[2] \in p[1].rem } })

\* The safes loop over every order of self.safes.  An iteration whose safe
\* is not in the copy's cells only repeats the test of line 252 on an
\* unchanged copy, so it can act only as the very first iteration: the
\* orders are an optional first iteration over a safe outside the cells,
\* then the safes inside the cells in every order.
SafesLoop(copy, safesNow, minesNow) ==
    LET inside  == safesNow \cap copy.cells
        outside == safesNow \ copy.cells
        start   == [cells |-> copy.cells, count |-> copy.count,
                    mines |-> minesNow, rem |-> inside]
    IN  SafesOrders(
            (IF inside # {} \/ safesNow = {} THEN {start} ELSE {})
            \cup (IF outside # {}
                  THEN {[SafesStep(start, CHOOSE x \in outside : TRUE)
                            EXCEPT !.rem = inside]}
                  ELSE {}))

\* The mines iteration without the test "deepcopy_sentence.count == 0".
MinesStepNoCountTest(f, mine) ==
    IF mine \in f.cells
    THEN LET cells1 == f.cells \ {mine}
             count1 == f.count - 1
         IN  [cells |-> cells1, count |-> count1,
              safes |-> IF Cardinality(cells1) > 0
                        THEN f.safes \cup cells1 ELSE f.safes,
              rem |-> f.rem \ {mine}]
    ELSE [f EXCEPT !.rem = f.rem \ {mine}]

\* One iteration of "for mine in self.mines" (lines 262-268).
MinesStep(f, mine) ==
    IF mine \in f.cells
    THEN LET cells1 == f.cells \ {mine}
             count1 == f.count - 1
         IN  [cells |-> cells1, count |-> count1,
              safes |-> IF count1 = 0 /\ Cardinality(cells1) > 0
                        THEN f.safes \cup cells1 ELSE f.safes,
              rem |-> f.rem \ {mine}]
    ELSE [f EXCEPT !.rem = f.rem \ {mine}]

\* Every order of the remaining iterations of the mines loop.
RECURSIVE MinesOrders(_)
MinesOrders(frontier) ==
    IF \A f \in frontier : f.rem = {} THEN frontier
    ELSE MinesOrders({ f \in frontier : f.rem = {} }
                     \cup { MinesStep(f, m) : <<f, m>> \in
                              { p \in frontier \X UNION { f.rem : f \in frontier } :
                                  p[2] \in p[1].rem } })

\* The mines loop over every order of self.mines.  An iteration whose mine
\* is not in the copy's cells does nothing, so only the mines inside the
\* cells are ordered.
MinesLoop(copy, safesNow, minesNow) ==
    MinesOrders({[cells |-> copy.cells, count |-> copy.count,
                  safes |-> safesNow, rem |-> minesNow \cap copy.cells]})

\* MinesweeperAI._update_sentence: the possible values of (safes, mines)
\* after the call, st being their values before it.
update_sentence(s, st) ==
    IF s.count > 0 /\ Cardinality(s.cells) > 0
    THEN UNION { { [safes |-> f2.safes, mines |-> f1.mines] :
                     f2 \in MinesLoop(f1, st.safes, f1.mines) } :
                 f1 \in SafesLoop(s, st.safes, st.mines) }
    ELSE {st}

\* "for sentence in self.knowledge: self._update_sentence(sentence)",
\* from the i-th sentence on, sts being the possible (safes, mines) so far.
RECURSIVE PropagationPass(_, _, _)
PropagationPass(k, i, sts) ==
    IF i > Len(k) THEN sts
    ELSE PropagationPass(k, i + 1, UNION { update_sentence(k[i], st) : st \in sts })

\* MinesweeperAI.add_knowledge
add_knowledge(cell, count) ==
    LET surr_cells == get_surrounding_cells(cell)
        safes1 == safes \cup {cell}
        zero   == count = 0
        full   == count = Cardinality(surr_cells)
        sent1  == IF zero THEN MarkSafeEach(NewSentence(surr_cells, count), surr_cells)
                  ELSE NewSentence(surr_cells, count)
        safes2 == IF zero THEN safes1 \cup surr_cells ELSE safes1
        mines2 == IF zero THEN mines \ surr_cells ELSE mines
        sent2  == IF full THEN MarkMineEach(sent1, surr_cells) ELSE sent1
        mines3 == IF full THEN mines2 \cup surr_cells ELSE mines2
        know1  == Append(knowledge, sent2)
    IN  /\ moves_made' = moves_made \cup {cell}
        /\ knowledge' = know1
        /\ \E st \in PropagationPass(know1, 1, {[safes |-> safes2, mines |-> mines3]}) :
              /\ safes' = st.safes
              /\ mines' = st.mines
        /\ op' = "add_knowledge"
        /\ arg' = cell
        /\ argCount' = count
        /\ ret' = None
        /\ UNCHANGED <<height, width, board, sentence, prev, marks>>

\* The values make_safe_move can return.
make_safe_move ==
    LET save_moves == { cell \in get_all_cells :
                          cell \notin moves_made /\ cell \in safes }
    IN  IF save_moves = {} THEN {None} ELSE save_moves

\* make_random_move without the test "cell not in self.mines".
make_random_move_ignoring_mines ==
    IF make_safe_move = {None}
    THEN LET potential_moves == { cell \in get_all_cells : cell \notin moves_made }
         IN  IF potential_moves = {} THEN {None} ELSE potential_moves
    ELSE {None}

\* make_random_move without the test "self.make_safe_move() == None".
make_random_move_without_safe_test ==
    LET potential_moves == { cell \in get_all_cells :
                               cell \notin moves_made /\ cell \notin mines }
    IN  IF potential_moves = {} THEN {None} ELSE potential_moves

\* The values make_random_move can return.
make_random_move ==
    IF make_safe_move = {None}
    THEN LET potential_moves == { cell \in get_all_cells :
                                    cell \notin moves_made /\ cell \notin mines }
         IN  IF potential_moves = {} THEN {None} ELSE potential_moves
    ELSE {None}

(***************************************************************************)
(* The game: a board, and a caller that reveals cells that hold no mine    *)
(* and reports nearby_mines of each to the AI, once per cell.              *)
(***************************************************************************)

Dims == { d \in (1 .. MaxArea) \X (1 .. MaxArea) : d[1] * d[2] <= MaxArea }

NoSentence == NewSentence({}, 0)

InitGame ==
    /\ \E d \in Dims : height = d[1] /\ width = d[2]
    /\ board \in SUBSET ((0 .. height - 1) \X (0 .. width - 1))
    /\ moves_made = {}
    /\ safes = {}
    /\ mines = {}
    /\ knowledge = <<>>
    /\ sentence = NoSentence
    /\ prev = NoSentence
    /\ op = "init"
    /\ arg = None
    /\ argCount = 0
    /\ ret = None
    /\ marks = 0

Reveal ==
    \E cell \in get_all_cells \ (board \cup moves_made) :
        add_knowledge(cell, nearby_mines(cell))

\* A make_safe_move that records the cell it returns as a move made.
MakeSafeMove_recording_move ==
    /\ \E r \in make_safe_move :
          /\ ret' = r
          /\ moves_made' = IF r # None THEN moves_made \cup {r} ELSE moves_made
    /\ op' = "make_safe_move"
    /\ arg' = None
    /\ argCount' = 0
    /\ UNCHANGED <<height, width, board, safes, mines, knowledge,
                   sentence, prev, marks>>

MakeSafeMove ==
    /\ \E r \in make_safe_move : ret' = r
    /\ op' = "make_safe_move"
    /\ arg' = None
    /\ argCount' = 0
    /\ UNCHANGED <<height, width, board, moves_made, safes, mines, knowledge,
                   sentence, prev, marks>>

MakeRandomMove ==
    /\ \E r \in make_random_move : ret' = r
    /\ op' = "make_random_move"
    /\ arg' = None
    /\ argCount' = 0
    /\ UNCHANGED <<height, width, board, moves_made, safes, mines, knowledge,
                   sentence, prev, marks>>

Next == Reveal \/ MakeSafeMove \/ MakeRandomMove

Spec == InitGame /\ [][Next]_vars

(***************************************************************************)
(* An unconstrained caller: add_knowledge with any cell, on the board or   *)
(* one step off it, already played or not, and any count.  The AI never    *)
(* reads the board, so it is left empty.                                   *)
(***************************************************************************)

AnyCells == (0 .. height) \X (0 .. width)

InitAny ==
    /\ InitGame
    /\ height * width <= MaxAnyArea
    /\ board = {}

AddKnowledgeAny ==
    /\ Len(knowledge) < MaxCalls
    /\ \E cell \in AnyCells, count \in 0 .. MaxCount : add_knowledge(cell, count)

NextAny == AddKnowledgeAny

SpecAny == InitAny /\ [][NextAny]_vars

(***************************************************************************)
(* A caller that also uses the AI's public mark_mine and mark_safe, which  *)
(* add_knowledge itself never calls.                                       *)
(***************************************************************************)

MarkMine ==
    /\ marks < MaxMarks
    /\ \E cell \in AnyCells : AI_mark_mine(cell)

MarkSafe ==
    /\ marks < MaxMarks
    /\ \E cell \in AnyCells : AI_mark_safe(cell)

NextMark == AddKnowledgeAny \/ MarkMine \/ MarkSafe

SpecMark == InitAny /\ [][NextMark]_vars

(***************************************************************************)
(* A stand-alone Sentence, built over any cells with any count, and a      *)
(* caller of its methods.                                                  *)
(***************************************************************************)

SentCells == {0} \X (0 .. MaxSentCells - 1)

InitSentence ==
    /\ height = 1
    /\ width = MaxSentCells
    /\ board = {}
    /\ moves_made = {}
    /\ safes = {}
    /\ mines = {}
    /\ knowledge = <<>>
    /\ \E cells \in SUBSET SentCells, count \in 0 .. MaxSentCells :
          sentence = NewSentence(cells, count)
    /\ prev = sentence
    /\ op = "init"
    /\ arg = None
    /\ argCount = 0
    /\ ret = None
    /\ marks = 0

SentenceCall(name, cell, after, result) ==
    /\ sentence' = after
    /\ prev' = sentence
    /\ op' = name
    /\ arg' = cell
    /\ argCount' = 0
    /\ ret' = result
    /\ UNCHANGED <<height, width, board, moves_made, safes, mines, knowledge, marks>>

SentenceMarkMine ==
    \E cell \in SentCells :
        SentenceCall("Sentence.mark_mine", cell, Sentence_mark_mine(sentence, cell), None)

SentenceMarkSafe ==
    \E cell \in SentCells :
        SentenceCall("Sentence.mark_safe", cell, Sentence_mark_safe(sentence, cell), None)

SentenceKnownMines ==
    SentenceCall("Sentence.known_mines", None, sentence, known_mines(sentence))

SentenceKnownSafes ==
    SentenceCall("Sentence.known_safes", None, sentence, known_safes(sentence))

NextSentence ==
    SentenceMarkMine \/ SentenceMarkSafe \/ SentenceKnownMines \/ SentenceKnownSafes

SpecSentence == InitSentence /\ [][NextSentence]_vars

(***************************************************************************)
(* Properties                                                              *)
(***************************************************************************)

\* C1: after every add_knowledge call of a game (distinct cells that hold
\* no mine, each with its true count), safes and mines are disjoint.
C1_Disjoint == safes \cap mines = {}

\* C1 witness: add_knowledge has returned with a deduced mine and a deduced safe.
C1_Witness ==
    /\ op = "add_knowledge"
    /\ mines # {}
    /\ safes \ moves_made # {}
    /\ safes \cap mines = {}

\* C2: in a game, every cell in mines really holds a mine and no cell in
\* safes does.
C2_NoFalseDeduction ==
    /\ mines \subseteq board
    /\ safes \cap board = {}

\* C2 witness: the AI has found every mine of a board with two mines.
C2_Witness ==
    /\ op = "add_knowledge"
    /\ Cardinality(board) = 2
    /\ mines = board

WellFormed(s) == 0 <= s.count /\ s.count <= Cardinality(s.cells)

\* C3 as stated: a sentence with 0 <= count <= |cells| still has
\* 0 <= count <= |cells| after Sentence.mark_mine(cell) and after
\* Sentence.mark_safe(cell), for every cell.
C3_Original ==
    (op \in {"Sentence.mark_mine", "Sentence.mark_safe"} /\ WellFormed(prev))
        => WellFormed(sentence)

\* C3 amended: a sentence with 0 <= count <= |cells| still has
\* 0 <= count <= |cells| after Sentence.mark_mine(cell) for every cell, and
\* after Sentence.mark_safe(cell) for every cell except a cell of a sentence
\* with count = |cells|.
C3_Amended ==
    /\ (op = "Sentence.mark_mine" /\ WellFormed(prev)) => WellFormed(sentence)
    /\ (op = "Sentence.mark_safe" /\ WellFormed(prev)
            /\ ~(arg \in prev.cells /\ prev.count = Cardinality(prev.cells)))
        => WellFormed(sentence)

\* C3 witness: mark_safe has removed a cell of a sentence with
\* 0 < count < |cells|, and the sentence is still well formed.
C3_Witness ==
    /\ op = "Sentence.mark_safe"
    /\ WellFormed(prev)
    /\ arg \in prev.cells
    /\ sentence.cells = prev.cells \ {arg}
    /\ WellFormed(sentence)

\* The cells within Chebyshev distance 1 of cell, on the board, cell excluded.
Neighbours(cell) ==
    { c \in get_all_cells :
        /\ c # cell
        /\ c[1] - cell[1] \in -1 .. 1
        /\ c[2] - cell[2] \in -1 .. 1 }

\* C4: the sentence add_knowledge(cell, count) appends is over exactly the
\* neighbours of cell that are on the board (or over nothing, once its cells
\* were all marked as mines), and no cell off the board is ever in a
\* sentence, in safes or in mines.
C4_NeighboursOnBoard ==
    /\ (op = "add_knowledge" /\ knowledge[Len(knowledge)].cells # {})
          => knowledge[Len(knowledge)].cells = Neighbours(arg)
    /\ \A i \in 1 .. Len(knowledge) : knowledge[i].cells \subseteq get_all_cells
    /\ safes \subseteq get_all_cells
    /\ mines \subseteq get_all_cells

\* C5: when add_knowledge returns, one more propagation pass over the
\* knowledge adds nothing to safes and nothing to mines.
C5_FixedPoint ==
    op = "add_knowledge"
        => PropagationPass(knowledge, 1, {[safes |-> safes, mines |-> mines]})
               = {[safes |-> safes, mines |-> mines]}

\* C6: add_knowledge with a cell already in moves_made, or off the board,
\* is rejected with an error and changes nothing of the AI.
C6_Rejected ==
    [][(op' = "add_knowledge" /\ (arg' \in moves_made \/ arg' \notin get_all_cells))
          => (ret' = "error" /\ UNCHANGED aiVars)]_vars

\* C7: make_safe_move returns a cell of safes that is not in moves_made,
\* and None exactly when safes \ moves_made is empty.
C7_SafeMove ==
    op = "make_safe_move"
        => /\ ret # None => ret \in safes \ moves_made
           /\ ret = None <=> safes \ moves_made = {}

\* C8: where make_safe_move yields None, make_random_move returns a cell of
\* the board that is neither in moves_made nor in mines, and None exactly
\* when every cell of the board is in moves_made or in mines.
C8_RandomMove ==
    (op = "make_random_move" /\ make_safe_move = {None})
        => /\ ret # None => ret \in get_all_cells \ (moves_made \cup mines)
           /\ ret = None <=> get_all_cells \subseteq moves_made \cup mines

\* C8 witness: with no safe move and a known mine, make_random_move has
\* returned a cell.
C8_Witness ==
    /\ op = "make_random_move"
    /\ make_safe_move = {None}
    /\ mines \cap get_all_cells # {}
    /\ ret \in get_all_cells

\* C9: Sentence.mark_safe(cell), for a cell of the sentence, removes exactly
\* that cell and leaves count as it was, whatever the count.
C9_MarkSafeRemoves ==
    (op = "Sentence.mark_safe" /\ arg \in prev.cells)
        => sentence = [cells |-> prev.cells \ {arg}, count |-> prev.count]

\* C10: Sentence.mark_mine(cell) on a sentence with count >= 1 and cell in
\* its cells removes exactly that cell and lowers count by 1; for a cell not
\* in cells it changes nothing; and count never becomes negative.
C10_MarkMine ==
    /\ (op = "Sentence.mark_mine" /\ arg \in prev.cells /\ prev.count >= 1)
          => sentence = [cells |-> prev.cells \ {arg}, count |-> prev.count - 1]
    /\ (op = "Sentence.mark_mine" /\ arg \notin prev.cells) => sentence = prev
    /\ sentence.count >= 0

\* C10 witness: mark_mine has removed a cell of a sentence with count >= 1.
C10_Witness ==
    /\ op = "Sentence.mark_mine"
    /\ arg \in prev.cells
    /\ prev.count >= 1
    /\ sentence.count = prev.count - 1
    /\ arg \notin sentence.cells

\* C11: for a sentence with count = 0, over any cells, the empty set
\* included, known_safes yields exactly the cells of the sentence and
\* known_mines returns None.
C11_ZeroCount ==
    /\ (op = "Sentence.known_safes" /\ sentence.count = 0)
          => ret = GeneratorOver(sentence.cells)
    /\ (op = "Sentence.known_mines" /\ sentence.count = 0)
          => ret = NoneReturned

\* C12: after add_knowledge returns, for any two distinct sentences A and
\* B of knowledge with A.cells a subset of B.cells, knowledge also holds
\* the sentence (B.cells minus A.cells, B.count minus A.count), and no two
\* sentences of knowledge are equal.
C12_SubsetInference ==
    op = "add_knowledge" =>
        /\ \A i, j \in 1 .. Len(knowledge) :
              (i # j /\ knowledge[i].cells \subseteq knowledge[j].cells)
                 => \E k \in 1 .. Len(knowledge) :
                       knowledge[k] =
                           [cells |-> knowledge[j].cells \ knowledge[i].cells,
                            count |-> knowledge[j].count - knowledge[i].count]
        /\ \A i, j \in 1 .. Len(knowledge) :
              i # j => knowledge[i] # knowledge[j]

\* C13: make_safe_move and make_random_move are pure queries: a call of
\* either leaves moves_made, safes, mines and every sentence of knowledge
\* unchanged.
C13_PureQueries ==
    [][op' \in {"make_safe_move", "make_random_move"} => UNCHANGED aiVars]_vars

\* a safe move has just been returned from a state that holds knowledge
C13_Witness ==
    /\ op = "make_safe_move"
    /\ ret # None
    /\ ret \in safes \ moves_made
    /\ Len(knowledge) > 0

\* C14: for an in-bounds cell, if count equals the number of the cell's
\* in-bounds neighbours, then after add_knowledge(cell, count) every
\* in-bounds neighbour of the cell is in mines.
C14_FullCount ==
    (op = "add_knowledge" /\ argCount = Cardinality(Neighbours(arg)))
        => Neighbours(arg) \subseteq mines

\* C15: from any state reached by add_knowledge calls, when
\* add_knowledge(cell, 0) returns, the cell and every neighbour of it are
\* in safes and no neighbour of it is in mines.
C15_ZeroRetracts ==
    (op = "add_knowledge" /\ argCount = 0)
        => /\ arg \in safes
           /\ Neighbours(arg) \subseteq safes
           /\ Neighbours(arg) \cap mines = {}

\* C16: for every sentence of knowledge with count > 0: if removing from
\* its cells the cells that are in safes when the propagation pass of
\* add_knowledge begins (or when add_knowledge is called) leaves exactly
\* count cells, then once the pass has run all of those cells are in mines.
C16_RemainingAreMines ==
    [][op' = "add_knowledge" =>
          LET atCall == safes
              atPass == safes \cup {arg'}
                          \cup (IF argCount' = 0
                                THEN get_surrounding_cells(arg') ELSE {})
          IN  \A i \in 1 .. Len(knowledge') : \A known \in {atCall, atPass} :
                  (/\ knowledge'[i].count > 0
                   /\ Cardinality(knowledge'[i].cells \ known)
                         = knowledge'[i].count)
                      => knowledge'[i].cells \ known \subseteq mines']_vars

\* add_knowledge has returned, and a sentence with count > 0 that holds
\* safe cells has exactly count other cells, all of them in mines
C16_Witness ==
    /\ op = "add_knowledge"
    /\ \E i \in 1 .. Len(knowledge) :
          /\ knowledge[i].count > 0
          /\ knowledge[i].cells \cap safes # {}
          /\ Cardinality(knowledge[i].cells \ safes) = knowledge[i].count
          /\ knowledge[i].cells \ safes \subseteq mines

\* C17: when add_knowledge returns, no sentence of knowledge with
\* count > 0 still contains a cell that is in safes or in mines: the pass
\* has simplified the stored sentences.
C17_StoredSimplified ==
    op = "add_knowledge" =>
        \A i \in 1 .. Len(knowledge) :
            knowledge[i].count > 0
                => knowledge[i].cells \cap (safes \cup mines) = {}

\* C18: if knowledge holds the two sentences {x, y} = 1 and {x} = 1, in
\* either order, then after one run of the propagation of add_knowledge
\* x is in mines and y is in safes.
C18_TwoSentences ==
    \A x, y \in AnyCells :
        (/\ x # y
         /\ \E i, j \in 1 .. Len(knowledge) :
               /\ knowledge[i] = NewSentence({x, y}, 1)
               /\ knowledge[j] = NewSentence({x}, 1))
            => \A st \in PropagationPass(knowledge, 1,
                                         {[safes |-> safes, mines |-> mines]}) :
                   x \in st.mines /\ y \in st.safes

\* C19: after MinesweeperAI.mark_mine(cell) the cell is in mines and no
\* sentence of knowledge contains it; after MinesweeperAI.mark_safe(cell)
\* the cell is in safes and no sentence of knowledge contains it; neither
\* call changes moves_made or the other global set.
C19_MarkBroadcast ==
    [][/\ op' = "mark_mine" =>
            /\ arg' \in mines'
            /\ \A i \in 1 .. Len(knowledge') : arg' \notin knowledge'[i].cells
            /\ UNCHANGED <<moves_made, safes>>
       /\ op' = "mark_safe" =>
            /\ arg' \in safes'
            /\ \A i \in 1 .. Len(knowledge') : arg' \notin knowledge'[i].cells
            /\ UNCHANGED <<moves_made, mines>>]_vars

====
